---- MODULE Spec2Model ----
(***************************************************************************)
(* Model of onex_track.py: one invocation of main() polls the carrier for  *)
(* every tracked shipment concurrently (asyncio.gather), drops the events  *)
(* the Pantry cache already records, saves the cache and posts the new     *)
(* events to ntfy.sh.                                                      *)
(*                                                                         *)
(* Spec is one invocation against a carrier whose answers may change while *)
(* the coroutines are polling it.  SpecRerun is the scheduler invoking the *)
(* script again and again, with the same arguments, against a carrier      *)
(* whose answers stay the same.                                            *)
(*                                                                         *)
(* Dates are abstract timestamps (positive integers, 0 = key absent);      *)
(* strings the carrier sends are short tags.  The Cyrillic message texts   *)
(* are replaced by template names.                                         *)
(*                                                                         *)
(* SpecYt is the other script, abl_yt_ping.py, run again and again by      *)
(* hand or by the scheduler; the two scripts share nothing.                *)
(***************************************************************************)
EXTENDS Integers, Sequences, FiniteSets, TLC

VARIABLES
    track,            \* args.track: the tokens given with --track
    no_cache,         \* args.no_cache
    no_notification,  \* args.no_notification
    remote,           \* the carrier's state for each tracking number (see Answers)
    pantry,           \* the Pantry basket: tracking number -> date (0 = no key)
    changes,          \* number of carrier changes so far
    run,              \* number of the current invocation
    pc,               \* where main() is
    exit_code,        \* exit status of the process, read when pc = "exited"
    tasks,            \* the process_package coroutines of gather: where each is, its
                      \* basic_info and the checkpoint list its second request returned
    results,          \* what gather returns, in the order of track
    status_info,      \* main's status_info
    errors,           \* main's errors
    cache_data,       \* the dict load_cache returns, updated by cache_wrapper
    ntfy,             \* the notify tasks of the TaskGroup
    posts,            \* requests ntfy.sh has answered in this run
    pantry0,          \* history: the basket as it was when this run began
    n_loads,          \* history: GETs of the basket in this run
    n_saves,          \* history: POSTs to the basket in this run
    cause,            \* history: what ended the run
    faults,           \* history: the requests of main that failed in this run
    prev_ok,          \* history: the previous run exited with status 0
    prev_cause,       \* history: what ended the previous run
    yt                \* abl_yt_ping.py: its state file, its run and what it has sent

vars == <<track, no_cache, no_notification, remote, pantry, changes, run, pc,
          exit_code, tasks, results, status_info, errors, cache_data, ntfy,
          posts, pantry0, n_loads, n_saves, cause, faults, prev_ok, prev_cause, yt>>

-----------------------------------------------------------------------------
(* Bounds of the model *)

MaxTrack == 2       \* longest --track list
MaxRuns == 2        \* invocations in a behaviour
MaxChanges == 1     \* changes of the carrier's answers in a behaviour
MaxYtRuns == 3      \* invocations of abl_yt_ping in a behaviour

-----------------------------------------------------------------------------
(* Values.  NoDate and Absent stand for a key that is missing or None. *)

TNos == {"A", "B"}
NoDate == 0
Absent == "<absent>"
UNKNOWN == "*UNKNOWN*"

EXIT_OK == 0
EXIT_TRACEBACK == 1
EXIT_PROBE == 2
EXIT_CACHE == 3

\* --track tokens: TRACKING_NUMBER[:NAME]
Tokens == { [no |-> "A", colon |-> FALSE, name |-> Absent],
            [no |-> "B", colon |-> TRUE,  name |-> "home"] }

\* main: tno.split(':', 1) if ':' in tno else (tno, "*UNKNOWN*")
SplitToken(tok) ==
    IF tok.colon THEN <<tok.no, tok.name>> ELSE <<tok.no, UNKNOWN>>

DIR_DICT == [type \in {"in", "out"} |->
                IF type = "in" THEN "pribyla v" ELSE "pokinula"]

\* PROCESSOR_DICT with a catch-all entry for a status the script does not know
PROCESSOR_DICT_lost ==
    [status \in {"in my way", "3", "in USA", "received", "in Armenia", "lost"} |->
        CASE status \in {"in my way", "3"} -> "get_shipping_status"
          [] status = "received"           -> "get_received_status"
          [] status = "in Armenia"         -> "get_in_am_status"
          [] OTHER                         -> "get_at_wh_status"]

PROCESSOR_DICT == [status \in {"in my way", "3", "in USA", "received", "in Armenia"} |->
    CASE status = "in my way"  -> "get_shipping_status"
      [] status = "3"          -> "get_shipping_status"
      [] status = "in USA"     -> "get_at_wh_status"
      [] status = "received"   -> "get_received_status"
      [] status = "in Armenia" -> "get_in_am_status"]

\* str.lower() on the status names the carrier uses here
Lower(s) ==
    CASE s = "In Transit" -> "in transit"
      [] s = "Departed"   -> "departed"
      [] OTHER            -> s

-----------------------------------------------------------------------------
(* The carrier's answers *)

\* basic_info['import'] once the parcel is at the warehouse; orderstatus is
\* Absent right after the warehouse scan
Import(orderstatus, est) ==
    [orderstatus |-> orderstatus, wo_scanneddate |-> 11, inusadate |-> 12,
     inmywaydate |-> 13, inarmeniadate |-> 14, receiveddate |-> 15,
     estimateddate |-> est]

InfoFail == [ok |-> FALSE, hasImport |-> FALSE, import |-> Import(Absent, NoDate),
             courier |-> Absent, last_check |-> NoDate]
InfoPre == [ok |-> TRUE, hasImport |-> FALSE, import |-> Import(Absent, NoDate),
            courier |-> "USPS", last_check |-> 1]
InfoImport(orderstatus, est) ==
    [ok |-> TRUE, hasImport |-> TRUE, import |-> Import(orderstatus, est),
     courier |-> Absent, last_check |-> NoDate]

\* /track/history: transport failure, no 'data', or the checkpoint list
HistoryFail == [ok |-> FALSE, hasData |-> FALSE, checkpoints |-> <<>>]
HistoryNoData == [ok |-> TRUE, hasData |-> FALSE, checkpoints |-> <<>>]
History(cps) == [ok |-> TRUE, hasData |-> TRUE, checkpoints |-> cps]
PreCp(t, place, status) ==
    [time |-> t, location_translated |-> place, status_name |-> status]

\* /parcel/hub: transport failure or the list under 'data'
HubFail == [ok |-> FALSE, data |-> <<>>]
Hub(cps) == [ok |-> TRUE, data |-> cps]
HubCp(hub, type, date) == [hub |-> hub, type |-> type, date |-> date]

Snapshot(info, history, hub) == [info |-> info, history |-> history, hub |-> hub]

\* the carrier lists pre-arrival checkpoints and hub records in no promised order
HistoryUnordered == History(<<PreCp(2, "Memphis", "Departed"),
                              PreCp(3, "New York", "In Transit")>>)
HubUnordered == Hub(<<HubCp("Yerevan", "in", 22), HubCp("Los Angeles", "out", 21)>>)

SnapFail == Snapshot(InfoFail, HistoryFail, HubFail)
SnapPre == Snapshot(InfoPre, HistoryUnordered, Hub(<<>>))
SnapUSA == Snapshot(InfoImport("in USA", NoDate), HistoryNoData, Hub(<<>>))
SnapLost == Snapshot(InfoImport("lost", NoDate), HistoryNoData, Hub(<<>>))
SnapTransit == Snapshot(InfoImport("in my way", NoDate), HistoryNoData, HubUnordered)
SnapNoDate == Snapshot(InfoImport("3", NoDate), HistoryNoData,
                       Hub(<<HubCp("Los Angeles", "out", NoDate)>>))
SnapNoHub == Snapshot(InfoImport("in my way", NoDate), HistoryNoData,
                      Hub(<<HubCp(Absent, "in", 23)>>))

\* the carrier states the runs are checked against, and what the carrier
\* answers to the three requests in each
RunSnapshots == {"down", "pre-arrival", "in USA", "lost", "in my way", "no date",
                 "no hub"}

Answers(state) ==
    CASE state = "down"        -> SnapFail
      [] state = "pre-arrival" -> SnapPre
      [] state = "in USA"      -> SnapUSA
      [] state = "lost"        -> SnapLost
      [] state = "in my way"   -> SnapTransit
      [] state = "no date"     -> SnapNoDate
      [] state = "no hub"      -> SnapNoHub

-----------------------------------------------------------------------------
(* The resolver: process_package and the processors it dispatches to *)

\* the keys a processor's latest_entry may carry
Fields == [date |-> NoDate, hub |-> Absent, type |-> Absent, dir |-> Absent,
           place |-> Absent, status |-> Absent, courier |-> Absent]

\* a coroutine raising, and a processor returning (msg_template, latest_entry)
Raise(err, arg) ==
    [ok |-> FALSE, err |-> err, arg |-> arg, msg_template |-> Absent, entry |-> Fields]
Return(msg_template, entry) ==
    [ok |-> TRUE, err |-> Absent, arg |-> Absent, msg_template |-> msg_template,
     entry |-> entry]

get_preonex_status(data, response) ==
    IF ~response.ok THEN Raise("ClientError", "history")
    ELSE IF ~response.hasData THEN Raise("ValueError", "No data collected")
    ELSE IF response.checkpoints = <<>>
         THEN Return("nodata", [Fields EXCEPT !.courier = data.courier,
                                              !.date = data.last_check])
    ELSE LET last == response.checkpoints[1]
         IN Return("located", [Fields EXCEPT !.place = last.location_translated,
                                             !.status = Lower(last.status_name),
                                             !.date = last.time])

get_at_wh_status(data) ==
    Return("at_wh", [Fields EXCEPT !.date = data.import.inusadate])

\* get_shipping_status without the default for an empty list: trk_info[-1]
\* raises IndexError
get_shipping_status_no_default(data, response) ==
    IF ~response.ok THEN Raise("ClientError", "hub")
    ELSE LET trk_info == response.data
         IN IF trk_info = <<>> THEN Raise("IndexError", "list index out of range")
            ELSE LET cp == trk_info[Len(trk_info)]
                     last == [Fields EXCEPT !.hub = cp.hub, !.type = cp.type,
                                            !.date = cp.date]
                 IN IF last.type \notin DOMAIN DIR_DICT
                    THEN Raise("KeyError", last.type)
                    ELSE Return("moved", [last EXCEPT !.dir = DIR_DICT[last.type]])

get_shipping_status(data, response) ==
    IF ~response.ok THEN Raise("ClientError", "hub")
    ELSE LET trk_info == response.data
             last == IF trk_info # <<>>
                     THEN LET cp == trk_info[Len(trk_info)]
                          IN [Fields EXCEPT !.hub = cp.hub, !.type = cp.type,
                                            !.date = cp.date]
                     ELSE [Fields EXCEPT !.hub = "sklad Onex", !.type = "out",
                                         !.date = data.import.inmywaydate]
         IN IF last.type \notin DOMAIN DIR_DICT
            THEN Raise("KeyError", last.type)
            ELSE Return("moved", [last EXCEPT !.dir = DIR_DICT[last.type]])

get_in_am_status(data) ==
    Return("in_am", [Fields EXCEPT !.status = "in Armenia",
                                   !.date = data.import.inarmeniadate])

get_received_status(data) ==
    Return("received", [Fields EXCEPT !.status = "received",
                                      !.date = data.import.receiveddate])

\* babel.dates.format_date(fromisoformat(d), format='EE, d MMM', locale='ru')
FormatDate(d) == <<"EE, d MMM", "ru", d>>

\* process_package from "Latest entry found" to its return
Finish(tno, label, basic_info, out) ==
    LET est == IF basic_info.hasImport THEN basic_info.import.estimateddate ELSE NoDate
    IN [ok |-> TRUE, err |-> Absent, arg |-> Absent,
        entry |-> [no |-> tno, label |-> label,
                   date |-> out.entry.date, hub |-> out.entry.hub,
                   type |-> out.entry.type, dir |-> out.entry.dir,
                   place |-> out.entry.place, status |-> out.entry.status,
                   courier |-> out.entry.courier,
                   estimateddate |-> IF est # NoDate THEN FormatDate(est) ELSE <<>>,
                   msg_template |-> [head |-> out.msg_template,
                                     hasestimateddate |-> est # NoDate]]]

NoEntry == Finish(Absent, Absent, InfoFail, Raise(Absent, Absent)).entry

\* what gather records for a coroutine that raised
Failed(out) == [ok |-> FALSE, err |-> out.err, arg |-> out.arg, entry |-> NoEntry]

Settled(tno, label, basic_info, out) ==
    IF out.ok THEN Finish(tno, label, basic_info, out) ELSE Failed(out)

\* process_package up to its second request: "history" and "hub" say which
\* request it awaits next, "done" that it returned or raised (in result)
AfterInfo(tno, label, response) ==
    IF ~response.ok
    THEN [next |-> "done", result |-> Failed(Raise("ClientError", "info"))]
    ELSE IF ~response.hasImport
    THEN [next |-> "history", result |-> Failed(Raise(Absent, Absent))]
    ELSE IF response.import.orderstatus = Absent
    THEN [next |-> "done",
          result |-> Finish(tno, label, response,
                            Return("scanned",
                                   [Fields EXCEPT !.date = response.import.wo_scanneddate]))]
    ELSE IF response.import.orderstatus \notin DOMAIN PROCESSOR_DICT
    THEN [next |-> "done",
          result |-> Failed(Raise("KeyError", response.import.orderstatus))]
    ELSE LET processor == PROCESSOR_DICT[response.import.orderstatus]
         IN IF processor = "get_shipping_status"
            THEN [next |-> "hub", result |-> Failed(Raise(Absent, Absent))]
            ELSE [next |-> "done",
                  result |-> Finish(tno, label, response,
                      CASE processor = "get_at_wh_status" -> get_at_wh_status(response)
                        [] processor = "get_received_status" -> get_received_status(response)
                        [] processor = "get_in_am_status" -> get_in_am_status(response))]

\* split_errors giving up at the first exception, as gather does without
\* return_exceptions
RECURSIVE split_errors_stop(_)
split_errors_stop(result_list) ==
    IF result_list = <<>> THEN <<(<<>>), (<<>>)>>
    ELSE LET i == Head(result_list)
         IN IF i.ok
            THEN LET rest == split_errors_stop(Tail(result_list))
                 IN <<(<<i.entry>>) \o rest[1], rest[2]>>
            ELSE <<(<<>>), (<<[err |-> i.err, arg |-> i.arg]>>)>>

\* split_errors: the entries returned, and the exceptions raised
RECURSIVE split_errors(_)
split_errors(result_list) ==
    IF result_list = <<>> THEN <<(<<>>), (<<>>)>>
    ELSE LET i == Head(result_list)
             rest == split_errors(Tail(result_list))
         IN IF i.ok
            THEN <<(<<i.entry>>) \o rest[1], rest[2]>>
            ELSE <<rest[1], (<<[err |-> i.err, arg |-> i.arg]>>) \o rest[2]>>

-----------------------------------------------------------------------------
(* The dedup cache: load_cache's cache_wrapper *)

EmptyBasket == [t \in TNos |-> NoDate]

\* cache_wrapper without the comparison: every event is new
cache_wrapper_never_cached(cache, entry) ==
    IF entry.date = NoDate
    THEN [raised |-> TRUE, cached |-> FALSE, cache_data |-> cache]
    ELSE [raised |-> FALSE, cached |-> FALSE,
          cache_data |-> [cache EXCEPT ![entry.no] = entry.date]]

\* cache_wrapper without the assignment: a new date is not recorded
cache_wrapper_forgets(cache, entry) ==
    IF entry.date = NoDate
    THEN [raised |-> TRUE, cached |-> FALSE, cache_data |-> cache]
    ELSE [raised |-> FALSE, cached |-> entry.date = cache[entry.no], cache_data |-> cache]

\* cache_wrapper(entry) on the dict cache_data: entry['date'] raises KeyError
\* when the key is missing; a new date is recorded before False is returned
cache_wrapper(cache, entry) ==
    IF entry.date = NoDate
    THEN [raised |-> TRUE, cached |-> FALSE, cache_data |-> cache]
    ELSE IF entry.date = cache[entry.no]
    THEN [raised |-> FALSE, cached |-> TRUE, cache_data |-> cache]
    ELSE [raised |-> FALSE, cached |-> FALSE,
          cache_data |-> [cache EXCEPT ![entry.no] = entry.date]]

\* main: status_info = [i for i in status_info if not is_cached(i)]
RECURSIVE FilterCached(_, _)
FilterCached(entries, cache) ==
    IF entries = <<>> THEN [raised |-> FALSE, cache_data |-> cache, kept |-> <<>>]
    ELSE LET r == cache_wrapper(cache, Head(entries))
         IN IF r.raised THEN [raised |-> TRUE, cache_data |-> cache, kept |-> <<>>]
            ELSE LET rest == FilterCached(Tail(entries), r.cache_data)
                 IN [raised |-> rest.raised, cache_data |-> rest.cache_data,
                     kept |-> (IF r.cached THEN <<>> ELSE <<Head(entries)>>) \o rest.kept]

-----------------------------------------------------------------------------
(* Messages: main formats each entry's msg_template with the entry's keys *)

\* the placeholders of a template; format raises KeyError for a missing key
Placeholders(msg_template) ==
    (CASE msg_template.head = "nodata"  -> {"courier", "label"}
       [] msg_template.head = "located" -> {"label", "status", "place"}
       [] msg_template.head = "moved"   -> {"label", "dir", "hub"}
       [] OTHER                         -> {"label"})
    \cup (IF msg_template.hasestimateddate THEN {"estimateddate"} ELSE {})
    \cup {"date", "no"}

HasKey(entry, key) ==
    CASE key = "date"          -> entry.date # NoDate
      [] key = "estimateddate" -> entry.estimateddate # <<>>
      [] key = "no"            -> entry.no # Absent
      [] key = "label"         -> entry.label # Absent
      [] key = "hub"           -> entry.hub # Absent
      [] key = "dir"           -> entry.dir # Absent
      [] key = "place"         -> entry.place # Absent
      [] key = "status"        -> entry.status # Absent
      [] key = "courier"       -> entry.courier # Absent

Format(entry) ==
    IF \E key \in Placeholders(entry.msg_template) : ~HasKey(entry, key)
    THEN [raised |-> TRUE, label |-> entry.label, msg |-> <<>>]
    ELSE [raised |-> FALSE, label |-> entry.label,
          msg |-> <<entry.msg_template.head, entry.label, entry.dir, entry.hub,
                    entry.status, entry.place, entry.courier, entry.estimateddate,
                    entry.date, entry.no>>]

\* main: the loop that fills messages
Messages(entries) == [i \in 1..Len(entries) |-> Format(entries[i])]

-----------------------------------------------------------------------------
(* State *)

TrackLists == UNION {[1..n -> Tokens] : n \in 1..MaxTrack}

Tracked(seq) == {SplitToken(seq[i])[1] : i \in 1..Len(seq)}

\* the basket earlier runs left: "A" was last seen at the US warehouse, "B" is new
OldBasket == [t \in TNos |-> IF t = "A" THEN Import(Absent, NoDate).inusadate ELSE NoDate]

NoResult == Failed(Raise(Absent, Absent))

\* abl_yt_ping before its first run: no state file, nothing sent
YtIdle == [pc |-> "idle", runs |-> 0, game_id |-> 0, no_cache |-> FALSE,
           no_notification |-> FALSE, exit_code |-> EXIT_OK, cause |-> "none",
           isfile |-> FALSE, corrupt |-> FALSE, games |-> <<>>, games0 |-> <<>>,
           sent |-> <<>>]

\* --no-notification only decides whether main enters the TaskGroup; it is
\* given with the shortest --track lists
NoNotification(seq) == IF Len(seq) = 1 THEN BOOLEAN ELSE {FALSE}

Init ==
    /\ yt = YtIdle
    /\ track \in TrackLists
    /\ no_cache \in BOOLEAN
    /\ no_notification \in NoNotification(track)
    /\ remote \in {r \in [TNos -> RunSnapshots] :
                     \A t \in TNos \ Tracked(track) : r[t] = "in USA"}
    /\ pantry = OldBasket
    /\ changes = 0
    /\ run = 1
    /\ pc = "probe"
    /\ exit_code = EXIT_OK
    /\ tasks = <<>>
    /\ results = <<>>
    /\ status_info = <<>>
    /\ errors = <<>>
    /\ cache_data = EmptyBasket
    /\ ntfy = <<>>
    /\ posts = {}
    /\ pantry0 = pantry
    /\ n_loads = 0
    /\ n_saves = 0
    /\ cause = "none"
    /\ faults = {}
    /\ prev_ok = FALSE
    /\ prev_cause = "none"

config == <<track, no_cache, no_notification>>
history == <<prev_ok, prev_cause>>

\* main records that `request` got `outcome`
Answered(request, outcome) ==
    faults' = IF outcome = "ok" THEN faults ELSE faults \cup {request}

\* the process ends: sys.exit(code), an exception leaving main, or main returning
Exit(code, why) ==
    /\ pc' = "exited"
    /\ exit_code' = code
    /\ cause' = why

-----------------------------------------------------------------------------
(* main, one action per await *)

\* _check_connection without its sys.exit: a failed probe is only logged
Probe_no_exit(outcome, verbose) ==
    /\ pc = "probe"
    /\ Answered("probe", outcome)
    /\ pc' = "gather"
    /\ tasks' = [i \in 1..Len(track) |->
                    [pc |-> "info", basic_info |-> InfoFail, listed |-> <<>>]]
    /\ results' = [i \in 1..Len(track) |-> NoResult]
    /\ UNCHANGED <<yt, config, remote, pantry, changes, run, exit_code, cause, status_info,
                   errors, cache_data, ntfy, posts, pantry0, n_loads, n_saves, history>>

\* _check_connection, then main up to the gather
Probe(outcome, verbose) ==
    /\ pc = "probe"
    /\ Answered("probe", outcome)
    /\ IF outcome = "ok"
       THEN /\ pc' = "gather"
            /\ tasks' = [i \in 1..Len(track) |->
                            [pc |-> "info", basic_info |-> InfoFail, listed |-> <<>>]]
            /\ results' = [i \in 1..Len(track) |-> NoResult]
            /\ UNCHANGED <<exit_code, cause>>
       ELSE /\ IF outcome = "connerr" /\ verbose
               THEN Exit(EXIT_TRACEBACK, "probe")
               ELSE Exit(EXIT_PROBE, "probe")
            /\ UNCHANGED <<tasks, results>>
    /\ UNCHANGED <<yt, config, remote, pantry, changes, run, status_info, errors,
                   cache_data, ntfy, posts, pantry0, n_loads, n_saves, history>>

\* the carrier is in `state` for tno when a request for tno reaches it: the
\* state it was last seen in, or a new one
Carrier(tno, state) ==
    IF state = remote[tno]
    THEN UNCHANGED <<remote, changes>>
    ELSE /\ changes < MaxChanges
         /\ remote' = [remote EXCEPT ![tno] = state]
         /\ changes' = changes + 1

\* process_package(tno, label): the answer to findtrackingcodeimport arrives
FetchInfo(i, state) ==
    /\ pc = "gather"
    /\ i \in 1..Len(tasks)
    /\ tasks[i].pc = "info"
    /\ Carrier(SplitToken(track[i])[1], state)
    /\ LET tno == SplitToken(track[i])[1]
           label == SplitToken(track[i])[2]
           response == Answers(state).info
           step == AfterInfo(tno, label, response)
       IN /\ tasks' = [tasks EXCEPT ![i] = [pc |-> step.next, basic_info |-> response,
                                            listed |-> <<>>]]
          /\ results' = [results EXCEPT ![i] = step.result]
    /\ UNCHANGED <<yt, config, pantry, run, pc, exit_code, status_info,
                   errors, cache_data, ntfy, posts, pantry0, n_loads, n_saves, cause, faults,
                   history>>

\* get_preonex_status: the answer to track/history arrives
FetchHistory(i, state) ==
    /\ pc = "gather"
    /\ i \in 1..Len(tasks)
    /\ tasks[i].pc = "history"
    /\ Carrier(SplitToken(track[i])[1], state)
    /\ LET tno == SplitToken(track[i])[1]
           label == SplitToken(track[i])[2]
           out == get_preonex_status(tasks[i].basic_info, Answers(state).history)
       IN /\ tasks' = [tasks EXCEPT ![i].pc = "done",
                                 ![i].listed = Answers(state).history.checkpoints]
          /\ results' = [results EXCEPT ![i] = Settled(tno, label, tasks[i].basic_info, out)]
    /\ UNCHANGED <<yt, config, pantry, run, pc, exit_code, status_info,
                   errors, cache_data, ntfy, posts, pantry0, n_loads, n_saves, cause, faults,
                   history>>

\* get_shipping_status / get_parcel_status: the answer to parcel/hub arrives
FetchHub(i, state) ==
    /\ pc = "gather"
    /\ i \in 1..Len(tasks)
    /\ tasks[i].pc = "hub"
    /\ Carrier(SplitToken(track[i])[1], state)
    /\ LET tno == SplitToken(track[i])[1]
           label == SplitToken(track[i])[2]
           out == get_shipping_status(tasks[i].basic_info, Answers(state).hub)
       IN /\ tasks' = [tasks EXCEPT ![i].pc = "done",
                                 ![i].listed = Answers(state).hub.data]
          /\ results' = [results EXCEPT ![i] = Settled(tno, label, tasks[i].basic_info, out)]
    /\ UNCHANGED <<yt, config, pantry, run, pc, exit_code, status_info,
                   errors, cache_data, ntfy, posts, pantry0, n_loads, n_saves, cause, faults,
                   history>>

\* main from "if not status_info" to the TaskGroup: sets pc, exit_code, cause, ntfy
Announce(entries) ==
    LET messages == Messages(entries)
    IN IF entries = <<>>
       THEN Exit(EXIT_OK, "no new events") /\ ntfy' = <<>>
       ELSE IF \E i \in 1..Len(messages) : messages[i].raised
       THEN Exit(EXIT_TRACEBACK, "format") /\ ntfy' = <<>>
       ELSE IF no_notification
       THEN Exit(EXIT_OK, "done") /\ ntfy' = <<>>
       ELSE /\ pc' = "notify"
            /\ ntfy' = [i \in 1..Len(messages) |->
                           [label |-> messages[i].label, msg |-> messages[i].msg,
                            no |-> entries[i].no, date |-> entries[i].date,
                            state |-> "pending"]]
            /\ UNCHANGED <<exit_code, cause>>

\* main going on as soon as one coroutine is done, as asyncio.wait with
\* FIRST_COMPLETED does
Gathered_first_completed ==
    /\ pc = "gather"
    /\ \E i \in 1..Len(tasks) : tasks[i].pc = "done"
    /\ LET split == split_errors(results)
       IN /\ status_info' = split[1]
          /\ errors' = split[2]
          /\ IF no_cache
             THEN Announce(split[1])
             ELSE pc' = "load" /\ UNCHANGED <<exit_code, cause, ntfy>>
    /\ UNCHANGED <<yt, config, remote, pantry, changes, run, tasks, results, cache_data,
                   posts, pantry0, n_loads, n_saves, faults, history>>

\* gather returns once every coroutine has returned or raised; split_errors
Gathered ==
    /\ pc = "gather"
    /\ \A i \in 1..Len(tasks) : tasks[i].pc = "done"
    /\ LET split == split_errors(results)
       IN /\ status_info' = split[1]
          /\ errors' = split[2]
          /\ IF no_cache
             THEN Announce(split[1])
             ELSE pc' = "load" /\ UNCHANGED <<exit_code, cause, ntfy>>
    /\ UNCHANGED <<yt, config, remote, pantry, changes, run, tasks, results, cache_data,
                   posts, pantry0, n_loads, n_saves, faults, history>>

\* load_cache falling back to an empty cache when the basket cannot be read
LoadCache_degrade(outcome) ==
    /\ pc = "load"
    /\ Answered("load_cache", outcome)
    /\ n_loads' = n_loads + 1
    /\ LET r == FilterCached(status_info, IF outcome = "ok" THEN pantry ELSE EmptyBasket)
       IN /\ cache_data' = r.cache_data
          /\ IF r.raised
             THEN /\ Exit(EXIT_TRACEBACK, "cache_wrapper")
                  /\ UNCHANGED <<status_info, ntfy>>
             ELSE /\ status_info' = r.kept
                  /\ IF r.kept # <<>>
                     THEN pc' = "save" /\ UNCHANGED <<exit_code, cause, ntfy>>
                     ELSE Announce(r.kept)
    /\ UNCHANGED <<yt, config, remote, pantry, changes, run, tasks, results, errors, posts,
                   pantry0, n_saves, history>>

\* main announcing the new events right after the filter, without save_cache
LoadCache_skip_save(outcome) ==
    /\ pc = "load"
    /\ Answered("load_cache", outcome)
    /\ n_loads' = n_loads + 1
    /\ IF outcome = "ok"
       THEN LET r == FilterCached(status_info, pantry)
            IN /\ cache_data' = r.cache_data
               /\ IF r.raised
                  THEN /\ Exit(EXIT_TRACEBACK, "cache_wrapper")
                       /\ UNCHANGED <<status_info, ntfy>>
                  ELSE /\ status_info' = r.kept
                       /\ Announce(r.kept)
       ELSE /\ IF outcome = "notok"
               THEN Exit(EXIT_CACHE, "load_cache")
               ELSE Exit(EXIT_TRACEBACK, "load_cache")
            /\ UNCHANGED <<status_info, cache_data, ntfy>>
    /\ UNCHANGED <<yt, config, remote, pantry, changes, run, tasks, results, errors, posts,
                   pantry0, n_saves, history>>

\* load_cache: the GET of the basket is answered, then main filters status_info
LoadCache(outcome) ==
    /\ pc = "load"
    /\ Answered("load_cache", outcome)
    /\ n_loads' = n_loads + 1
    /\ IF outcome = "ok"
       THEN LET r == FilterCached(status_info, pantry)
            IN /\ cache_data' = r.cache_data
               /\ IF r.raised
                  THEN /\ Exit(EXIT_TRACEBACK, "cache_wrapper")
                       /\ UNCHANGED <<status_info, ntfy>>
                  ELSE /\ status_info' = r.kept
                       /\ IF r.kept # <<>>
                          THEN pc' = "save" /\ UNCHANGED <<exit_code, cause, ntfy>>
                          ELSE Announce(r.kept)
       ELSE /\ IF outcome = "notok"
               THEN Exit(EXIT_CACHE, "load_cache")
               ELSE Exit(EXIT_TRACEBACK, "load_cache")
            /\ UNCHANGED <<status_info, cache_data, ntfy>>
    /\ UNCHANGED <<yt, config, remote, pantry, changes, run, tasks, results, errors, posts,
                   pantry0, n_saves, history>>

\* save_cache posting only the entries of the numbers tracked in this run
SaveCache_only_tracked(outcome, stored) ==
    LET tracked == [t \in TNos |-> IF t \in Tracked(track) THEN cache_data[t] ELSE NoDate]
    IN /\ pc = "save"
       /\ Answered("save_cache", outcome)
       /\ n_saves' = n_saves + 1
       /\ IF outcome = "ok"
          THEN /\ pantry' = tracked
               /\ Announce(status_info)
          ELSE /\ pantry' = IF outcome = "connerr" /\ stored THEN tracked ELSE pantry
               /\ IF outcome = "notok"
                  THEN Exit(EXIT_CACHE, "save_cache")
                  ELSE Exit(EXIT_TRACEBACK, "save_cache")
               /\ UNCHANGED ntfy
       /\ UNCHANGED <<yt, config, remote, changes, run, tasks, results, status_info, errors,
                      cache_data, posts, pantry0, n_loads, history>>

\* save_cache posting the dict as it was loaded, without this run's dates
SaveCache_stale(outcome, stored) ==
    /\ pc = "save"
    /\ Answered("save_cache", outcome)
    /\ n_saves' = n_saves + 1
    /\ pantry' = pantry
    /\ IF outcome = "ok"
       THEN Announce(status_info)
       ELSE /\ IF outcome = "notok"
               THEN Exit(EXIT_CACHE, "save_cache")
               ELSE Exit(EXIT_TRACEBACK, "save_cache")
            /\ UNCHANGED ntfy
    /\ UNCHANGED <<yt, config, remote, changes, run, tasks, results, status_info, errors,
                   cache_data, posts, pantry0, n_loads, history>>

\* save_cache: the POST of the whole dict is answered (a request that fails in
\* transit may or may not have been stored), then main prepares the messages
SaveCache(outcome, stored) ==
    /\ pc = "save"
    /\ Answered("save_cache", outcome)
    /\ n_saves' = n_saves + 1
    /\ IF outcome = "ok"
       THEN /\ pantry' = cache_data
            /\ Announce(status_info)
       ELSE /\ pantry' = IF outcome = "connerr" /\ stored THEN cache_data ELSE pantry
            /\ IF outcome = "notok"
               THEN Exit(EXIT_CACHE, "save_cache")
               ELSE Exit(EXIT_TRACEBACK, "save_cache")
            /\ UNCHANGED ntfy
    /\ UNCHANGED <<yt, config, remote, changes, run, tasks, results, status_info, errors,
                   cache_data, posts, pantry0, n_loads, history>>

\* notify: session.post to ntfy.sh is answered or raises; the TaskGroup cancels
\* the tasks still waiting when one raises
Notify(i, outcome) ==
    /\ pc = "notify"
    /\ i \in 1..Len(ntfy)
    /\ ntfy[i].state = "pending"
    /\ Answered("notify", IF outcome = "connerr" THEN outcome ELSE "ok")
    /\ IF outcome = "connerr"
       THEN /\ ntfy' = [j \in 1..Len(ntfy) |->
                          IF j = i THEN [ntfy[j] EXCEPT !.state = "raised"]
                          ELSE IF ntfy[j].state = "pending"
                          THEN [ntfy[j] EXCEPT !.state = "cancelled"]
                          ELSE ntfy[j]]
            /\ UNCHANGED posts
       ELSE /\ ntfy' = [ntfy EXCEPT ![i].state = "answered"]
            /\ posts' = posts \cup {[task |-> i, label |-> ntfy[i].label,
                                     msg |-> ntfy[i].msg]}
    /\ UNCHANGED <<yt, config, remote, pantry, changes, run, pc, exit_code, tasks, results,
                   status_info, errors, cache_data, pantry0, n_loads, n_saves, cause,
                   history>>

\* the TaskGroup is left: it raises an ExceptionGroup if a task raised,
\* otherwise main closes the session and returns
TaskGroupExit ==
    /\ pc = "notify"
    /\ \A i \in 1..Len(ntfy) : ntfy[i].state # "pending"
    /\ IF \E i \in 1..Len(ntfy) : ntfy[i].state = "raised"
       THEN Exit(EXIT_TRACEBACK, "notify")
       ELSE Exit(EXIT_OK, "done")
    /\ UNCHANGED <<yt, config, remote, pantry, changes, run, tasks, results, status_info,
                   errors, cache_data, ntfy, posts, pantry0, n_loads, n_saves, faults, history>>

-----------------------------------------------------------------------------
(* The scheduler *)

\* the scheduler starts the script again with the same arguments
NewRun ==
    /\ pc = "exited"
    /\ run < MaxRuns
    /\ run' = run + 1
    /\ pc' = "probe"
    /\ prev_ok' = (exit_code = EXIT_OK)
    /\ prev_cause' = cause
    /\ exit_code' = EXIT_OK
    /\ tasks' = <<>>
    /\ results' = <<>>
    /\ status_info' = <<>>
    /\ errors' = <<>>
    /\ cache_data' = EmptyBasket
    /\ ntfy' = <<>>
    /\ posts' = {}
    /\ pantry0' = pantry
    /\ n_loads' = 0
    /\ n_saves' = 0
    /\ cause' = "none"
    /\ faults' = {}
    /\ UNCHANGED <<yt, config, remote, pantry, changes>>

Outcomes == {"ok", "notok", "connerr"}

\* main from the answer to its probe to its exit, the coroutines aside
Main ==
    \/ \E outcome \in Outcomes, verbose \in BOOLEAN : Probe(outcome, verbose)
    \/ Gathered
    \/ \E outcome \in Outcomes : LoadCache(outcome)
    \/ \E outcome \in Outcomes, stored \in BOOLEAN : SaveCache(outcome, stored)
    \/ \E i \in 1..MaxTrack, outcome \in Outcomes : Notify(i, outcome)
    \/ TaskGroupExit

\* one invocation, the carrier changing under it
Next ==
    \/ Main
    \/ \E i \in 1..MaxTrack, state \in RunSnapshots : FetchInfo(i, state)
    \/ \E i \in 1..MaxTrack, state \in RunSnapshots : FetchHistory(i, state)
    \/ \E i \in 1..MaxTrack, state \in RunSnapshots : FetchHub(i, state)

Spec == Init /\ [][Next]_vars

\* invocation after invocation, the carrier staying as it is
NextRerun ==
    \/ Main
    \/ \E i \in 1..Len(track) : FetchInfo(i, remote[SplitToken(track[i])[1]])
    \/ \E i \in 1..Len(track) : FetchHistory(i, remote[SplitToken(track[i])[1]])
    \/ \E i \in 1..Len(track) : FetchHub(i, remote[SplitToken(track[i])[1]])
    \/ NewRun

SpecRerun == Init /\ [][NextRerun]_vars

-----------------------------------------------------------------------------
(* abl_yt_ping.py: one run looks for the video of a game and announces it once *)

GameIds == {1, 2}

Range(seq) == {seq[k] : k \in 1..Len(seq)}

\* every variable of onex_track
onex_vars == <<track, no_cache, no_notification, remote, pantry, changes, run, pc,
               exit_code, tasks, results, status_info, errors, cache_data, ntfy,
               posts, pantry0, n_loads, n_saves, cause, faults, prev_ok, prev_cause>>

\* the process ends: sys.exit(code), an exception leaving main, or main returning
YtExit(state, code, why) ==
    [state EXCEPT !.pc = "exited", !.exit_code = code, !.cause = why]

\* main after the cache check: notify unless --no-notification
YtAnnounce(state) ==
    IF state.no_notification
    THEN YtExit(state, EXIT_OK, "done")
    ELSE [state EXCEPT !.pc = "title"]

\* a run starts: parse_args; an argument that is neither digits nor a game URL
\* ends it with status 1
yt_parse_args(game_id, parsable, nocache, nonotification) ==
    /\ yt.pc \in {"idle", "exited"}
    /\ yt.runs < MaxYtRuns
    /\ LET started == [yt EXCEPT !.runs = yt.runs + 1, !.game_id = game_id,
                                 !.no_cache = nocache,
                                 !.no_notification = nonotification,
                                 !.exit_code = EXIT_OK, !.cause = "none",
                                 !.games0 = yt.games]
       IN yt' = IF parsable THEN [started EXCEPT !.pc = "page"]
                ELSE YtExit(started, EXIT_TRACEBACK, "parse_args")
    /\ UNCHANGED onex_vars

\* main: the game page is answered (or the GET raises); no <iframe> ends the
\* run, a src that YT_URL_RE does not match raises AttributeError
yt_main(page) ==
    /\ yt.pc = "page"
    /\ yt' = CASE page = "raise"    -> YtExit(yt, EXIT_TRACEBACK, "page")
               [] page = "no video" -> YtExit(yt, EXIT_OK, "no video")
               [] page = "bad src"  -> YtExit(yt, EXIT_TRACEBACK, "bad src")
               [] page = "video"    -> IF yt.no_cache THEN YtAnnounce(yt)
                                       ELSE [yt EXCEPT !.pc = "cache"]
    /\ UNCHANGED onex_vars

\* check_cache that only skips the append when the ID is found
check_cache_no_exit(outcome) ==
    /\ yt.pc = "cache"
    /\ IF yt.isfile /\ (outcome = "read error" \/ yt.corrupt)
       THEN yt' = YtExit(yt, EXIT_TRACEBACK, "state file")
       ELSE LET games == IF yt.isfile THEN yt.games ELSE <<>>
            IN IF yt.game_id \in Range(games)
               THEN yt' = YtAnnounce(yt)
               ELSE IF outcome = "write error"
               THEN yt' = YtExit(yt, EXIT_TRACEBACK, "state file")
               ELSE IF outcome = "dump error"
               THEN yt' = YtExit([yt EXCEPT !.isfile = TRUE, !.corrupt = TRUE,
                                            !.games = <<>>],
                                 EXIT_TRACEBACK, "state file")
               ELSE yt' = YtAnnounce([yt EXCEPT !.isfile = TRUE,
                                                !.games = Append(games, yt.game_id)])
    /\ UNCHANGED onex_vars

\* check_cache(game_id): load the list if the state file is there, exit if it
\* has the ID, else append the ID and write the list.  Reading may raise;
\* open(STATE_FILE, 'w') may raise and leave the file as it was, or succeed
\* and leave it truncated when json.dump raises
check_cache(outcome) ==
    /\ yt.pc = "cache"
    /\ IF yt.isfile /\ (outcome = "read error" \/ yt.corrupt)
       THEN yt' = YtExit(yt, EXIT_TRACEBACK, "state file")
       ELSE LET games == IF yt.isfile THEN yt.games ELSE <<>>
            IN IF yt.game_id \in Range(games)
               THEN yt' = YtExit(yt, EXIT_OK, "cached")
               ELSE IF outcome = "write error"
               THEN yt' = YtExit(yt, EXIT_TRACEBACK, "state file")
               ELSE IF outcome = "dump error"
               THEN yt' = YtExit([yt EXCEPT !.isfile = TRUE, !.corrupt = TRUE,
                                            !.games = <<>>],
                                 EXIT_TRACEBACK, "state file")
               ELSE yt' = YtAnnounce([yt EXCEPT !.isfile = TRUE,
                                                !.games = Append(games, yt.game_id)])
    /\ UNCHANGED onex_vars

\* notify: the GET of the video page for its title; it may raise, and a page
\* without <meta name="title"> raises AttributeError
yt_notify_title(outcome) ==
    /\ yt.pc = "title"
    /\ yt' = IF outcome = "ok" THEN [yt EXCEPT !.pc = "post"]
             ELSE YtExit(yt, EXIT_TRACEBACK, "title")
    /\ UNCHANGED onex_vars

\* notify: the POST to ntfy.sh is made; it is answered or raises
yt_notify_post(outcome) ==
    /\ yt.pc = "post"
    /\ LET posted == [yt EXCEPT !.sent = Append(yt.sent,
                          [game_id |-> yt.game_id, no_cache |-> yt.no_cache,
                           run |-> yt.runs])]
       IN yt' = IF outcome = "ok" THEN YtExit(posted, EXIT_OK, "done")
                ELSE YtExit(posted, EXIT_TRACEBACK, "post")
    /\ UNCHANGED onex_vars

\* onex_track is not running
InitYt ==
    /\ yt = YtIdle
    /\ track = <<CHOOSE tok \in Tokens : ~tok.colon>>
    /\ no_cache = TRUE
    /\ no_notification = TRUE
    /\ remote = [t \in TNos |-> "in USA"]
    /\ pantry = OldBasket
    /\ changes = 0
    /\ run = 1
    /\ pc = "probe"
    /\ exit_code = EXIT_OK
    /\ tasks = <<>>
    /\ results = <<>>
    /\ status_info = <<>>
    /\ errors = <<>>
    /\ cache_data = EmptyBasket
    /\ ntfy = <<>>
    /\ posts = {}
    /\ pantry0 = pantry
    /\ n_loads = 0
    /\ n_saves = 0
    /\ cause = "none"
    /\ faults = {}
    /\ prev_ok = FALSE
    /\ prev_cause = "none"

NextYt ==
    \/ \E game_id \in GameIds, parsable, nocache, nonotification \in BOOLEAN :
          yt_parse_args(game_id, parsable, nocache, nonotification)
    \/ \E page \in {"raise", "no video", "bad src", "video"} : yt_main(page)
    \/ \E outcome \in {"ok", "read error", "write error", "dump error"} :
          check_cache(outcome)
    \/ \E outcome \in {"ok", "raise", "no title"} : yt_notify_title(outcome)
    \/ \E outcome \in {"ok", "raise"} : yt_notify_post(outcome)

SpecYt == InitYt /\ [][NextYt]_vars

-----------------------------------------------------------------------------
(* Properties *)

TnoOf(i) == SplitToken(track[i])[1]
FailedIdx == {i \in 1..Len(results) : ~results[i].ok}
Max(S) == CHOOSE x \in S : \A y \in S : y <= x

\* the date cache_data held for ntfy[i]'s tracking number when cache_wrapper
\* checked it: the date of the previous new event of that number in this run,
\* or else the date loaded from the basket
CheckedAgainst(i) ==
    LET earlier == {j \in 1..(i - 1) : ntfy[j].no = ntfy[i].no}
    IN IF earlier = {} THEN pantry0[ntfy[i].no] ELSE ntfy[Max(earlier)].date

\* C1 (as stated): with the cache enabled, a notification is sent for an event
\* only if the event's date differs from the date the basket held for its
\* tracking number when it was loaded
C1_Original ==
    ~no_cache =>
        \A i \in 1..Len(ntfy) :
            ntfy[i].state = "answered" => ntfy[i].date # pantry0[ntfy[i].no]

\* C1 (amended): with the cache enabled, a notification is sent for an event
\* only if the event's date differs from the date the cache records for its
\* tracking number when the event is checked: the loaded date, or the date an
\* earlier new event of the same tracking number recorded in this run
C1_Amended ==
    ~no_cache =>
        \A i \in 1..Len(ntfy) :
            ntfy[i].state = "answered" => ntfy[i].date # CheckedAgainst(i)

\* a run with the cache on that notified one event and suppressed a duplicate
C1_Witness ==
    /\ ~no_cache
    /\ pc = "exited" /\ exit_code = EXIT_OK
    /\ \E i \in 1..Len(ntfy) : ntfy[i].state = "answered"
    /\ Len(ntfy) < Cardinality({i \in 1..Len(results) : results[i].ok})

\* C2: after a run that completed with the cache enabled, a run against the
\* unchanged carrier and the basket the first run left sends no notification
\* and does not save the cache
C2_Idempotent ==
    (run > 1 /\ prev_ok /\ ~no_cache) =>
        /\ posts = {}
        /\ ntfy = <<>>
        /\ n_saves = 0

\* a second run that resolved events, all of them recorded by the first run
C2_Witness ==
    /\ run > 1 /\ prev_ok /\ ~no_cache
    /\ pc = "exited" /\ cause = "no new events"
    /\ pantry # OldBasket
    /\ \E i \in 1..Len(results) : results[i].ok

\* exactly one coroutine of the gather raised, on a request to the carrier
OneFetchFails ==
    /\ pc \notin {"probe", "gather"}
    /\ Cardinality(FailedIdx) = 1
    /\ \A i \in FailedIdx : results[i].err = "ClientError"

\* split_errors has run and status_info has not been filtered by the cache
Produced == pc = "load" \/ (no_cache /\ pc \in {"notify", "exited"})

\* the basket changed only for tracking numbers of coroutines that returned,
\* and then to a date one of them resolved
UpdatedOnlyForSuccesses ==
    \A t \in TNos :
        pantry[t] # pantry0[t] =>
            \E i \in 1..Len(results) :
                results[i].ok /\ TnoOf(i) = t /\ results[i].entry.date = pantry[t]

\* C3 (as stated): when exactly one of N shipments' fetch fails, N-1 events
\* are produced, the cache is updated only for those N-1, and the cache entry
\* of the failing shipment is not changed
C3_Original ==
    OneFetchFails =>
        /\ Produced => Len(status_info) = Len(track) - 1
        /\ UpdatedOnlyForSuccesses
        /\ \A i \in FailedIdx : pantry[TnoOf(i)] = pantry0[TnoOf(i)]

\* C3 (amended): when exactly one of N shipments' fetch fails, N-1 events are
\* produced and the cache is updated only for tracking numbers of the N-1
\* successes; the failing shipment's entry changes only if its tracking number
\* is also tracked by a shipment that succeeded
C3_Amended ==
    OneFetchFails =>
        /\ Produced => Len(status_info) = Len(track) - 1
        /\ UpdatedOnlyForSuccesses
        /\ \A i \in FailedIdx :
              pantry[TnoOf(i)] # pantry0[TnoOf(i)] =>
                  \E j \in 1..Len(results) : j # i /\ results[j].ok /\ TnoOf(j) = TnoOf(i)

\* one of two fetches failed and the run saved the other's event and exited 0
C3_Witness ==
    /\ OneFetchFails
    /\ Len(track) = 2
    /\ pc = "exited" /\ exit_code = EXIT_OK
    /\ pantry # pantry0

\* the timestamp of a checkpoint: 'time' before arrival, 'date' in transit
Stamp(cp) == IF "time" \in DOMAIN cp THEN cp.time ELSE cp.date
MaxStamp(cps) == Max({Stamp(cps[k]) : k \in 1..Len(cps)})

\* C4: for every non-empty checkpoint list the carrier returns, the event is
\* dated at the list's maximum timestamp, whatever the order of the list
C4_SelectsMaxTimestamp ==
    \A i \in 1..Len(tasks) :
        (tasks[i].pc = "done" /\ results[i].ok /\ tasks[i].listed # <<>>) =>
            results[i].entry.date = MaxStamp(tasks[i].listed)

Recognized == {"in my way", "3", "in USA", "in Armenia", "received"}

\* coroutine i was answered an import with an orderstatus outside Recognized
UnknownStatus(i) ==
    /\ tasks[i].pc = "done"
    /\ tasks[i].basic_info.ok /\ tasks[i].basic_info.hasImport
    /\ tasks[i].basic_info.import.orderstatus \notin Recognized \cup {Absent}

\* the shipment's pipeline failed with an error naming the status, and no
\* event (of any stage) was produced for it
FailsNamingStatus(i) ==
    /\ ~results[i].ok
    /\ results[i].err = "KeyError"
    /\ results[i].arg = tasks[i].basic_info.import.orderstatus
    /\ results[i].entry = NoEntry
    /\ pc \notin {"probe", "gather"} => Len(status_info) < Len(track)

\* C5 (as stated): a shipment whose orderstatus is not recognized fails with
\* an error naming the status, produces no event, and its cache entry is not
\* changed
C5_Original ==
    \A i \in 1..Len(tasks) :
        UnknownStatus(i) =>
            /\ FailsNamingStatus(i)
            /\ pantry[TnoOf(i)] = pantry0[TnoOf(i)]

\* C5 (amended): a shipment whose orderstatus is not recognized fails with an
\* error naming the status and produces no event; its cache entry changes only
\* if the same tracking number is tracked by another shipment that succeeded
C5_Amended ==
    \A i \in 1..Len(tasks) :
        UnknownStatus(i) =>
            /\ FailsNamingStatus(i)
            /\ pantry[TnoOf(i)] # pantry0[TnoOf(i)] =>
                  \E j \in 1..Len(results) :
                      /\ j # i /\ results[j].ok /\ TnoOf(j) = TnoOf(i)
                      /\ results[j].entry.date = pantry[TnoOf(i)]

\* a run with a shipment of unknown status that still notified another one
C5_Witness ==
    /\ pc = "exited" /\ exit_code = EXIT_OK
    /\ \E i \in 1..Len(tasks) : UnknownStatus(i)
    /\ \E k \in 1..Len(ntfy) : ntfy[k].state = "answered"

\* C6: when the probe fails the run ends with a non-zero status; no pipeline
\* is started, the cache is neither loaded nor saved, nothing is notified
C6_FailFastProbe ==
    "probe" \in faults =>
        /\ pc = "exited" /\ exit_code # EXIT_OK
        /\ tasks = <<>>
        /\ n_loads = 0 /\ n_saves = 0 /\ pantry = pantry0
        /\ ntfy = <<>> /\ posts = {}

\* the probe got a non-OK answer and the process exited with status 2
C6_Witness ==
    /\ "probe" \in faults
    /\ pc = "exited" /\ exit_code = EXIT_PROBE /\ cause = "probe"

\* C7: when sending one notification fails the run does not fail, and the
\* notifications of all other new events are still sent
C7_DeliveryFailureIsolated ==
    (pc = "exited" /\ "notify" \in faults) =>
        /\ exit_code = EXIT_OK
        /\ \A i \in 1..Len(ntfy) : ntfy[i].state \in {"answered", "raised"}

\* C8: with the cache enabled, when loading or saving the cache fails the run
\* ends with a non-zero status and sends no notification; events are never
\* treated as not cached instead
C8_CacheErrorsFatal ==
    (~no_cache /\ faults \cap {"load_cache", "save_cache"} # {}) =>
        /\ pc = "exited" /\ exit_code # EXIT_OK
        /\ ntfy = <<>> /\ posts = {}

\* the basket answered non-OK while a new event was waiting to be announced
C8_Witness ==
    /\ ~no_cache /\ ~no_notification
    /\ faults \cap {"load_cache", "save_cache"} # {}
    /\ pc = "exited" /\ exit_code = EXIT_CACHE
    /\ \E i \in 1..Len(results) :
          results[i].ok /\ results[i].entry.date # pantry0[TnoOf(i)]

\* some shipment produced a dated event the loaded cache does not record
SomeNonDuplicate ==
    \E i \in 1..Len(results) :
        /\ results[i].ok
        /\ results[i].entry.date # NoDate
        /\ results[i].entry.date # pantry0[TnoOf(i)]

\* C9: the cache is saved at most once in a run, only after every pipeline
\* has settled, and (the cache enabled and loaded) if and only if some
\* shipment produced a non-duplicate event
C9_SaveOnceIffNew ==
    /\ n_saves <= 1
    /\ n_saves > 0 => \A i \in 1..Len(tasks) : tasks[i].pc = "done"
    /\ (pc = "exited" /\ ~no_cache /\ n_loads = 1 /\ "load_cache" \notin faults) =>
          (n_saves = 1 <=> SomeNonDuplicate)

\* shipment i's pipeline returned an event that is not a duplicate
NewEvent(i) ==
    results[i].ok /\ (no_cache \/ results[i].entry.date # pantry0[TnoOf(i)])

Notified(i) ==
    \E k \in 1..Len(ntfy) :
        /\ ntfy[k].no = TnoOf(i) /\ ntfy[k].date = results[i].entry.date
        /\ ntfy[k].state = "answered"

\* C10: when the probe succeeds (and the cache backend answers) the run exits
\* with status 0 however many pipelines fail, and every shipment whose
\* pipeline succeeded with a new event is notified
C10_ZeroExitAndNotified ==
    (pc = "exited" /\ faults \cap {"probe", "load_cache", "save_cache"} = {}) =>
        /\ exit_code = EXIT_OK
        /\ ~no_notification => \A i \in 1..Len(results) : NewEvent(i) => Notified(i)

\* the run completed with the cache enabled
Completed == pc = "exited" /\ exit_code = EXIT_OK /\ ~no_cache

\* shipment i is the last one in --track with its tracking number that resolved
LastResolved(i) ==
    /\ results[i].ok
    /\ \A j \in (i + 1)..Len(results) : ~(results[j].ok /\ TnoOf(j) = TnoOf(i))

\* C11 (as stated): after a run that completes with the cache enabled, the
\* basket maps the tracking number of every shipment that resolved to the date
\* of that shipment's event, notified or not
C11_Original ==
    Completed =>
        \A i \in 1..Len(results) :
            results[i].ok => pantry[TnoOf(i)] = results[i].entry.date

\* C11 (amended): after a run that completes with the cache enabled, the
\* basket maps every tracking number that resolved to the date of the event of
\* the last shipment in --track order that resolved with that number, notified
\* or not
C11_Amended ==
    Completed =>
        \A i \in 1..Len(results) :
            LastResolved(i) => pantry[TnoOf(i)] = results[i].entry.date

\* a completed run that saved a new date and suppressed a duplicate
C11_Witness ==
    /\ Completed
    /\ pantry # pantry0
    /\ Len(ntfy) < Cardinality({i \in 1..Len(results) : results[i].ok})

\* coroutine i got an answer to each of its requests, with a recognized
\* combination of fields (and, before arrival, with 'data')
RecognizedInput(i) ==
    /\ tasks[i].pc = "done"
    /\ tasks[i].basic_info.ok
    /\ tasks[i].basic_info.hasImport =>
          tasks[i].basic_info.import.orderstatus \in Recognized \cup {Absent}
    /\ ~results[i].ok => results[i].err \notin {"ClientError", "ValueError"}

\* the stage the claim assigns to basic_info, as the template of its message,
\* and the date it assigns where it names one (NoDate: from a checkpoint)
StageOf(basic_info) ==
    LET import == basic_info.import
    IN IF ~basic_info.hasImport
       THEN [heads |-> {"nodata", "located"}, date |-> NoDate]
       ELSE CASE import.orderstatus = Absent ->
                   [heads |-> {"scanned"}, date |-> import.wo_scanneddate]
              [] import.orderstatus \in {"in my way", "3"} ->
                   [heads |-> {"moved"}, date |-> NoDate]
              [] import.orderstatus = "in USA" ->
                   [heads |-> {"at_wh"}, date |-> import.inusadate]
              [] import.orderstatus = "in Armenia" ->
                   [heads |-> {"in_am"}, date |-> import.inarmeniadate]
              [] import.orderstatus = "received" ->
                   [heads |-> {"received"}, date |-> import.receiveddate]

\* C12: for recognized inputs the stage is a function of field presence (no
\* import: pre-arrival; import without orderstatus: scanned, dated
\* wo_scanneddate; "in my way"/"3": in transit; "in USA", "in Armenia",
\* "received": dated inusadate, inarmeniadate, receiveddate), and in each case
\* one event with a non-empty date is produced
C12_StageTotal ==
    \A i \in 1..Len(tasks) :
        RecognizedInput(i) =>
            LET stage == StageOf(tasks[i].basic_info)
            IN /\ results[i].ok
               /\ results[i].entry.msg_template.head \in stage.heads
               /\ stage.date # NoDate => results[i].entry.date = stage.date
               /\ results[i].entry.date # NoDate

\* shipment i is in transit and its parcel/hub request was answered
InTransitAnswered(i) ==
    /\ tasks[i].pc = "done"
    /\ tasks[i].basic_info.ok /\ tasks[i].basic_info.hasImport
    /\ tasks[i].basic_info.import.orderstatus \in {"in my way", "3"}
    /\ ~results[i].ok => results[i].err # "ClientError"

\* C13: an in-transit shipment whose parcel/hub answer lists nothing gets the
\* "left the warehouse" event (type out, hub the Onex warehouse) dated
\* inmywaydate; when the list is not empty that event is not used
C13_SyntheticWhenEmpty ==
    \A i \in 1..Len(tasks) :
        InTransitAnswered(i) =>
            LET listed == tasks[i].listed
                entry == results[i].entry
            IN IF listed = <<>>
               THEN /\ results[i].ok
                    /\ entry.msg_template.head = "moved"
                    /\ entry.hub = "sklad Onex" /\ entry.type = "out"
                    /\ entry.dir = DIR_DICT["out"]
                    /\ entry.date = tasks[i].basic_info.import.inmywaydate
               ELSE results[i].ok =>
                    /\ entry.hub = listed[Len(listed)].hub
                    /\ entry.type = listed[Len(listed)].type
                    /\ entry.date = listed[Len(listed)].date

\* a run that notified the "left the warehouse" event
C13_Witness ==
    /\ pc = "exited" /\ exit_code = EXIT_OK
    /\ \E i \in 1..Len(tasks) :
          /\ InTransitAnswered(i) /\ tasks[i].listed = <<>>
          /\ \E k \in 1..Len(ntfy) :
                /\ ntfy[k].state = "answered" /\ ntfy[k].no = TnoOf(i)
                /\ ntfy[k].date = tasks[i].basic_info.import.inmywaydate

\* notify task k is the request for shipment i's event, titled with its label
RequestFor(k, i) ==
    /\ ntfy[k].no = TnoOf(i)
    /\ ntfy[k].date = results[i].entry.date
    /\ ntfy[k].label = SplitToken(track[i])[2]

\* C14: with notifications enabled and no request of the run failing, a run
\* sends exactly one notification, titled with the shipment's label, for every
\* non-duplicate event, and none for a shipment that failed or was a duplicate
C14_OnePerNewEvent ==
    (pc = "exited" /\ ~no_notification /\ faults = {}) =>
        /\ \A i \in 1..Len(results) :
              (NewEvent(i) /\ ~Format(results[i].entry).raised) =>
                  Cardinality({k \in 1..Len(ntfy) :
                      ntfy[k].state = "answered" /\ RequestFor(k, i)}) = 1
        /\ \A k \in 1..Len(ntfy) :
              \E i \in 1..Len(results) : results[i].ok /\ RequestFor(k, i)
        /\ Cardinality(posts) = Len(ntfy)

\* the record get_shipping_status took for in-transit shipment i lacks a key
MalformedRecord(i) ==
    /\ InTransitAnswered(i)
    /\ tasks[i].listed # <<>>
    /\ LET last == tasks[i].listed[Len(tasks[i].listed)]
       IN last.date = NoDate \/ last.hub = Absent \/ last.type = Absent

\* C15: a shipment whose payload lacks a field fails only its own pipeline:
\* the failure is that shipment's error, and the run goes on to check, save
\* and notify the events of the other shipments
C15_MalformedIsolated ==
    (pc = "exited" /\ faults = {}) =>
        \A i \in 1..Len(tasks) :
            MalformedRecord(i) =>
                /\ ~results[i].ok
                /\ exit_code = EXIT_OK
                /\ \A j \in 1..Len(results) :
                      (NewEvent(j) /\ ~MalformedRecord(j)) =>
                          /\ ~no_cache => n_saves = 1
                          /\ ~no_notification => Notified(j)

\* every process_package coroutine has returned or raised
AllSettled == pc # "gather" /\ \A i \in 1..Len(tasks) : tasks[i].pc = "done"

\* C16: the cache is read, checked and written only by main after every
\* pipeline has settled, and the checks and updates of the shipments follow
\* one another in --track order, so that whatever the order in which the
\* pipelines finished no update is lost: each tracking number that resolved
\* holds the date of the last shipment listed with it
C16_CacheAfterSettled ==
    /\ (n_loads > 0 \/ n_saves > 0 \/ cache_data # EmptyBasket \/ pantry # pantry0) =>
          AllSettled
    /\ (pc \in {"save", "notify", "exited"} /\ n_loads = 1 /\ faults = {}
            /\ cause # "cache_wrapper") =>
          \A i \in 1..Len(results) :
              LastResolved(i) => cache_data[TnoOf(i)] = results[i].entry.date

\* two shipments polled concurrently and both their new dates were saved
C16_Witness ==
    /\ pc = "exited" /\ exit_code = EXIT_OK
    /\ n_saves = 1
    /\ \A t \in TNos : pantry[t] # pantry0[t]

\* C17: with the cache enabled the save is complete before the first
\* notification is sent, so after a run whose notification failed a run
\* against the unchanged carrier does not send that notification again
C17_SaveBeforeNotify ==
    /\ (~no_cache /\ ntfy # <<>>) =>
          /\ n_saves = 1 /\ "save_cache" \notin faults
          /\ pantry = cache_data
    /\ (run > 1 /\ ~no_cache /\ prev_cause = "notify") =>
          ntfy = <<>> /\ posts = {}

\* the run after a failed notification found the event recorded and ended
C17_Witness ==
    /\ run > 1 /\ ~no_cache /\ prev_cause = "notify"
    /\ pc = "exited" /\ cause = "no new events"
    /\ \E i \in 1..Len(results) : results[i].ok

\* the shipments listed with tracking number t that resolved
ResolvedWith(t) == {i \in 1..Len(results) : results[i].ok /\ TnoOf(i) = t}

\* tracking number t is listed more than once and its pipelines resolved to
\* one date
SameDateTwice(t) ==
    /\ Cardinality({i \in 1..Len(track) : TnoOf(i) = t}) > 1
    /\ pc \notin {"probe", "gather"}
    /\ \A i, j \in ResolvedWith(t) : results[i].entry.date = results[j].entry.date

\* C18: with the cache enabled, a tracking number listed more than once whose
\* pipelines resolve to the same date gets at most one notification in the run
C18_OncePerNumber ==
    (~no_cache /\ ntfy # <<>>) =>
        \A t \in TNos :
            SameDateTwice(t) =>
                /\ Cardinality({k \in 1..Len(ntfy) : ntfy[k].no = t}) <= 1
                /\ Cardinality({m \in posts : ntfy[m.task].no = t}) <= 1

\* a number listed twice resolved twice to a new date and was notified once
C18_Witness ==
    /\ ~no_cache
    /\ pc = "exited" /\ exit_code = EXIT_OK
    /\ \E t \in TNos :
          /\ SameDateTwice(t)
          /\ Cardinality(ResolvedWith(t)) > 1
          /\ Cardinality({m \in posts : ntfy[m.task].no = t}) = 1

\* every tracking number the loaded basket had is still in the basket
KeysKept == \A t \in TNos : pantry0[t] # NoDate => pantry[t] # NoDate

\* C19 (as stated): the basket a run persists has every tracking number that
\* was loaded, and the entry of a number that was not tracked, whose pipeline
\* failed, or whose event was a duplicate is as loaded
C19_Original ==
    /\ KeysKept
    /\ \A t \in TNos \ Tracked(track) : pantry[t] = pantry0[t]
    /\ \A i \in 1..Len(results) :
          (~results[i].ok \/ results[i].entry.date = pantry0[TnoOf(i)]) =>
              pantry[TnoOf(i)] = pantry0[TnoOf(i)]

\* C19 (amended): the basket a run persists has every tracking number that
\* was loaded, and the entry of a number that was not tracked, or none of
\* whose shipments produced an event with a date other than the loaded one,
\* is as loaded
C19_Amended ==
    /\ KeysKept
    /\ \A t \in TNos :
          pantry[t] = pantry0[t]
          \/ \E i \in ResolvedWith(t) : results[i].entry.date # pantry0[t]

\* a run that saved one number's new date and kept an untracked number's entry
C19_Witness ==
    /\ pc = "exited" /\ exit_code = EXIT_OK /\ n_saves = 1
    /\ \E t \in TNos \ Tracked(track) : pantry0[t] # NoDate /\ pantry[t] = pantry0[t]
    /\ \E t \in Tracked(track) : pantry[t] # pantry0[t]

\* the notifications attempted for a game by runs with the cache enabled
SentCached(id) ==
    {k \in 1..Len(yt.sent) : yt.sent[k].game_id = id /\ ~yt.sent[k].no_cache}

\* the notifications attempted by the current run
SentNow == {k \in 1..Len(yt.sent) : yt.sent[k].run = yt.runs}

\* C20: in abl_yt_ping, over runs with the cache enabled, a game ID is
\* notified at most once and is at most once in the state file: a run that
\* finds the ID in the state file exits before notifying, a run that finds no
\* video neither records the ID nor notifies, and the ID is recorded before the
\* notification is attempted
C20_NotifiedOnce ==
    /\ \A id \in GameIds :
          /\ Cardinality(SentCached(id)) <= 1
          /\ Cardinality({k \in 1..Len(yt.games) : yt.games[k] = id}) <= 1
    /\ yt.cause = "cached" => SentNow = {} /\ yt.games = yt.games0
    /\ yt.cause = "no video" => SentNow = {} /\ yt.games = yt.games0
    /\ yt.cause \in {"cached", "no video"} => yt.exit_code = EXIT_OK
    /\ (~yt.no_cache /\ (yt.pc \in {"title", "post"} \/ SentNow # {})) =>
          yt.isfile /\ yt.game_id \in Range(yt.games)

\* a game announced by one run and found in the state file by a later one
C20_Witness ==
    /\ yt.pc = "exited" /\ yt.cause = "cached"
    /\ Cardinality(SentCached(yt.game_id)) = 1
    /\ Len(yt.games) = 2

====
